---- MODULE Spec2Model ----
(***************************************************************************)
(* Cache-and-data-access optimisation layer of RepoRover-AI                *)
(* (src/src/db/schema.optimized.ts): the connection pool                   *)
(* (ConnectionPoolManager) and the tag-aware Redis cache (RedisCache) with *)
(* its cache-aside helper, the data loader of BatchQueryExecutor and the   *)
(* stale-while-revalidate helper getWithRevalidate.                        *)
(* Each component has its own specification; the variables of the other    *)
(* components stay at their initial values.                                *)
(***************************************************************************)
EXTENDS Integers, Sequences, FiniteSets, TLC

(***************************************************************************)
(* Bounds of the model.                                                    *)
(***************************************************************************)
\* pool limit used by the model (the source configures 20)
maxConnections == 2
\* number of acquireConnection calls made in one behaviour
MaxCalls == 5

Calls == 1..MaxCalls

\* number of concurrent callers of the cache
NumProcs == 2
\* number of cache calls started and entries expired in one behaviour
MaxOps == 4
\* number of writes made to the backing source in one behaviour
MaxVersion == 1

Procs == 1..NumProcs
\* cache keys (CacheKeys) and tags (CacheTags); no key is of the form tag:<t>
Keys == {"k1", "k2"}
Tags == {"t1", "t2"}
\* the values cached: the version of the backing data they were read from
Values == 0..MaxVersion
\* the values that callers of set pass in
SetValues == {0, 1}

\* number of load calls made on the data loader in one behaviour
MaxLoads == 3
\* batch size limit given to createDataLoader (the source defaults to 50)
maxBatchSize == 3
\* this.batchDelay in clock ticks (the source uses 10 ms)
batchDelay == 2
\* number of changes made to the data that batchFn reads in one behaviour
MaxSrcVer == 1

Loads == 1..MaxLoads

\* number of getWithRevalidate calls made in one behaviour
MaxSwrCalls == 2

SwrCalls == 1..MaxSwrCalls

\* the default ttl of the cache configuration, in seconds (3600 in the source)
configTtl == 3

\* the largest ttl passed to set, in seconds
MaxTtl == 2

\* the number of requests made to the wrapped route handler
MaxRequests == 2
Requests == 1..MaxRequests

\* the size the query log is trimmed to (1000 in the source)
maxLogSize == 2

\* the number of monitoredQuery calls
MaxQueries == 4
QueryCalls == 1..MaxQueries

\* the number of tokens of a tracked query and of trackQuery calls between
\* two resets of the detector
MaxTokens == 2
MaxTracked == 2

\* the count over which a pattern is reported (5 in the source), and the
\* number of resets of the detector that are followed
threshold == 1
MaxWindows == 2

VARIABLES
    \* ---- ConnectionPoolManager
    activeConnections,   \* private activeConnections
    connectionQueue,     \* private connectionQueue: the queued closures, by call
    stats,               \* private stats
    nextCall,            \* the next acquireConnection call to be made
    callPc,              \* per call: "new" | "queued" | "running" | "done"
    timer,               \* per call: "none" | "armed" | "fired" | "cleared"
    outcome,             \* per call: how its promise settled
    runs,                \* per call: how many times its operation was started
    raised,              \* history: the calls whose operation raised an error
    \* ---- RedisCache (the Redis server behind this.client) and its callers
    store,               \* Redis strings: key -> serialized value, or NoValue
    tagSets,             \* Redis sets tag:<t>: tag -> keys
    db,                  \* the backing source read by fetchFn: its data version
    proc,                \* per caller: the cache call in flight and its locals
    opsStarted,          \* number of cache calls started and entries expired so far
    entryTags,           \* history: the tags given to the set that wrote the entry
    invalidatedVer,      \* history: per tag, the newest write whose invalidation returned
    \* ---- the loader returned by BatchQueryExecutor.createDataLoader
    memo,                \* options.cache: whether the loader has a cache Map
    loaderCache,         \* cache: key -> memoized value, or NoResult
    batchQueue,          \* batchQueue: the pending items, by load call
    batchTimeout,        \* batchTimeout: NoTimer, or the ticks left until it fires
    batches,             \* dispatched batches whose batchFn promise is pending
    loads,               \* per load call: key, promise state, result; history: whether
                         \* it was answered from the cache, and the call that opened its batch
    nextLoad,            \* the next load call to be made
    waited,              \* history: ticks since the first item of the queue was pushed
    srcVer,              \* version of the data that batchFn reads
    srcMissing,          \* the keys that the data batchFn reads has no row for
    \* ---- getWithRevalidate, over the Redis state above
    swrCalls,            \* per call: its arguments, where the caller and its
                         \* background refresh are, what was returned and fetched
    nextSwr,             \* the next getWithRevalidate call to be made
    aged,                \* history: the keys whose entry is older than staleTime
    \* ---- RedisCache.set with a ttl, over the Redis state above
    expiresIn,           \* Redis: key -> seconds until the entry expires (0: none)
    lastSet,             \* history: per key, the last set call, its result, its age
    \* ---- the wrapper returned by withCache, over the Redis state above
    requests,            \* per request: its inputs, where the wrapper is, the
                         \* response; history: the cache commands it issued
    \* ---- queryMonitor, monitoredQuery and n1Detector
    queryLogs,           \* queryLogs: the log entries, oldest first
    logged,              \* history: the number of logQuery calls so far
    clearedAt,           \* history: the value of logged at the last clear()
    queries,             \* per monitoredQuery call made: its name and state
    queryPatterns,       \* queryPatterns: pattern -> count (0: no entry)
    tracked,             \* history: the signatures tracked since the last reset
    windows              \* history: what getPatterns held at each reset so far

poolVars == <<activeConnections, connectionQueue, stats, nextCall, callPc,
              timer, outcome, runs, raised>>

cacheVars == <<store, tagSets, db, proc, opsStarted, entryTags, invalidatedVer>>

loaderVars == <<memo, loaderCache, batchQueue, batchTimeout, batches, loads,
                nextLoad, waited, srcVer, srcMissing>>

swrVars == <<swrCalls, nextSwr, aged>>

ttlVars == <<expiresIn, lastSet>>

mwVars == <<requests>>

monVars == <<queryLogs, logged, clearedAt, queries, queryPatterns, tracked,
             windows>>

vars == <<poolVars, cacheVars, loaderVars, swrVars, ttlVars, mwVars, monVars>>

(***************************************************************************)
(* ConnectionPoolManager                                                   *)
(***************************************************************************)
Max(a, b) == IF a >= b THEN a ELSE b

ZeroStats ==
    [totalConnections |-> 0, peakConnections |-> 0,
     queuedRequests |-> 0, timeouts |-> 0]

PoolInit ==
    /\ activeConnections = 0
    /\ connectionQueue = <<>>
    /\ stats = ZeroStats
    /\ nextCall = 1
    /\ callPc = [c \in Calls |-> "new"]
    /\ timer = [c \in Calls |-> "none"]
    /\ outcome = [c \in Calls |-> "pending"]
    /\ runs = [c \in Calls |-> 0]
    /\ raised = {}

\* a mis-written limit test: admits a caller when the pool is already full
HasFreeSlotOffByOne == activeConnections <= maxConnections

\* if (this.activeConnections < this.maxConnections)
HasFreeSlot == activeConnections < maxConnections

\* the slot bookkeeping done when an operation is started, on either path
StatsAfterStart(st, active) ==
    [st EXCEPT !.totalConnections = @ + 1,
               !.peakConnections = Max(@, active)]

\* a queue that hands out its newest closure
Pop(q) == [next |-> q[Len(q)], rest |-> SubSeq(q, 1, Len(q) - 1)]

\* a queue that loses the closure behind the one it hands out
ShiftAndDrop(q) ==
    [next |-> Head(q), rest |-> IF Len(q) > 1 THEN Tail(Tail(q)) ELSE Tail(q)]

\* this.connectionQueue.shift()
Shift(q) == [next |-> Head(q), rest |-> Tail(q)]

\* a release written at the end of the try block: skipped when operation() rejects
ReleasedOnSuccess(active, ok) == IF ok THEN active - 1 ELSE active

\* finally { this.activeConnections--; ... }: runs on resolve and on reject
Released(active, ok) == active - 1

\* a finally block that releases the slot without calling processQueue
ProcessQueueSkipped(queue, active) == FALSE

\* processQueue: if (this.connectionQueue.length > 0 &&
\*                   this.activeConnections < this.maxConnections)
ProcessQueueStarts(queue, active) == Len(queue) > 0 /\ active < maxConnections

\* acquireConnection, under the limit: the operation is started at once
AcquireImmediate ==
    /\ nextCall <= MaxCalls
    /\ HasFreeSlot
    /\ activeConnections' = activeConnections + 1
    /\ stats' = StatsAfterStart(stats, activeConnections + 1)
    /\ callPc' = [callPc EXCEPT ![nextCall] = "running"]
    /\ runs' = [runs EXCEPT ![nextCall] = @ + 1]
    /\ nextCall' = nextCall + 1
    /\ UNCHANGED <<connectionQueue, timer, outcome, raised>>
    /\ UNCHANGED <<cacheVars, loaderVars, swrVars, ttlVars, mwVars, monVars>>

\* acquireConnection, at the limit: the timer is armed and the closure queued
AcquireQueued ==
    /\ nextCall <= MaxCalls
    /\ ~HasFreeSlot
    /\ stats' = [stats EXCEPT !.queuedRequests = @ + 1]
    /\ timer' = [timer EXCEPT ![nextCall] = "armed"]
    /\ connectionQueue' = Append(connectionQueue, nextCall)
    /\ callPc' = [callPc EXCEPT ![nextCall] = "queued"]
    /\ nextCall' = nextCall + 1
    /\ UNCHANGED <<activeConnections, outcome, runs, raised>>
    /\ UNCHANGED <<cacheVars, loaderVars, swrVars, ttlVars, mwVars, monVars>>

\* a setTimeout callback that rejects without counting the timeout
TimeoutFiresUncounted(c) ==
    /\ timer[c] = "armed"
    /\ timer' = [timer EXCEPT ![c] = "fired"]
    /\ outcome' = [outcome EXCEPT ![c] = IF @ = "pending" THEN "timeout" ELSE @]
    /\ UNCHANGED <<activeConnections, connectionQueue, stats, nextCall, callPc,
                   runs, raised>>
    /\ UNCHANGED <<cacheVars, loaderVars, swrVars, ttlVars, mwVars, monVars>>

\* the setTimeout callback of a queued call: counts and rejects, nothing else
TimeoutFires(c) ==
    /\ timer[c] = "armed"
    /\ timer' = [timer EXCEPT ![c] = "fired"]
    /\ stats' = [stats EXCEPT !.timeouts = @ + 1]
    /\ outcome' = [outcome EXCEPT ![c] = IF @ = "pending" THEN "timeout" ELSE @]
    /\ UNCHANGED <<activeConnections, connectionQueue, nextCall, callPc, runs,
                   raised>>
    /\ UNCHANGED <<cacheVars, loaderVars, swrVars, ttlVars, mwVars, monVars>>

\* the operation of a running call settles (ok: resolved, ~ok: rejected);
\* the finally block releases the slot and runs processQueue, which starts the
\* next closure (clearTimeout, slot bookkeeping, operation()) in the same turn
OperationSettles(c, ok) ==
    /\ callPc[c] = "running"
    /\ LET released == Released(activeConnections, ok)
           settled == [outcome EXCEPT ![c] =
                          IF @ = "pending"
                          THEN (IF ok THEN "resolved" ELSE "rejected")
                          ELSE @]
       IN  /\ outcome' = settled
           /\ raised' = IF ok THEN raised ELSE raised \cup {c}
           /\ IF ProcessQueueStarts(connectionQueue, released)
              THEN LET s == Shift(connectionQueue)
                       n == s.next
                   IN  /\ connectionQueue' = s.rest
                       /\ timer' = [timer EXCEPT ![n] =
                                       IF @ = "armed" THEN "cleared" ELSE @]
                       /\ activeConnections' = released + 1
                       /\ stats' = StatsAfterStart(stats, released + 1)
                       /\ callPc' = [callPc EXCEPT ![c] = "done", ![n] = "running"]
                       /\ runs' = [runs EXCEPT ![n] = @ + 1]
              ELSE /\ activeConnections' = released
                   /\ callPc' = [callPc EXCEPT ![c] = "done"]
                   /\ UNCHANGED <<connectionQueue, timer, stats, runs>>
    /\ UNCHANGED nextCall
    /\ UNCHANGED <<cacheVars, loaderVars, swrVars, ttlVars, mwVars, monVars>>

\* resetStats()
ResetStats ==
    /\ stats # ZeroStats
    /\ stats' = ZeroStats
    /\ UNCHANGED <<activeConnections, connectionQueue, nextCall, callPc,
                   timer, outcome, runs, raised>>
    /\ UNCHANGED <<cacheVars, loaderVars, swrVars, ttlVars, mwVars, monVars>>

\* getStats()
GetStats ==
    [totalConnections |-> stats.totalConnections,
     peakConnections |-> stats.peakConnections,
     queuedRequests |-> stats.queuedRequests,
     timeouts |-> stats.timeouts,
     activeConnections |-> activeConnections,
     queueLength |-> Len(connectionQueue)]

PoolNext ==
    \/ AcquireImmediate
    \/ AcquireQueued
    \/ \E c \in Calls : TimeoutFires(c)
    \/ \E c \in Calls, ok \in BOOLEAN : OperationSettles(c, ok)
    \/ ResetStats


(***************************************************************************)
(* RedisCache, its callers and the write-then-invalidate pattern           *)
(***************************************************************************)
\* the reply of Redis for a key that does not exist
NoValue == "(nil)"

\* the null that get returns on a miss
Null == -1

\* JSON.stringify(value)
Serialize(v) == ToString(v)

\* JSON.parse(value)
Parse(s) == CHOOSE v \in Values : ToString(v) = s

\* get(key): the stored string parsed, or null
Get(k) == IF store[k] = NoValue THEN Null ELSE Parse(store[k])

Live(k) == store[k] # NoValue

Range(seq) == {seq[i] : i \in 1..Len(seq)}

\* the tag arrays passed to invalidateTags; invalidateTag(t) is the array <<t>>
TagSeqs ==
    {<<t>> : t \in Tags} \cup {s \in Tags \X Tags : s[1] # s[2]}

\* a caller with no call in flight
IdleProc ==
    [op |-> "none", pc |-> "idle", key |-> "k1", val |-> Null, tags |-> {},
     tagSeq |-> <<>>, args |-> <<>>, keysRead |-> {}, total |-> 0, ver |-> 0,
     solo |-> FALSE, afterInv |-> FALSE]

\* a set or an invalidation has returned: what it passed in and what it got
\* back (the value of a set, the tags and the count of an invalidation) is
\* kept for as long as no other call has started since
Done(r) ==
    IF ~r.solo \/ r.op \notin {"set", "invalidateTags"} THEN IdleProc ELSE
    [IdleProc EXCEPT !.op = r.op, !.solo = r.solo, !.afterInv = r.afterInv,
                     !.key = IF r.op = "set" THEN r.key ELSE "k1",
                     !.val = IF r.op = "set" THEN r.val ELSE Null,
                     !.args = IF r.op = "invalidateTags" THEN r.args ELSE <<>>,
                     !.keysRead = IF r.op = "invalidateTags" THEN r.keysRead ELSE {},
                     !.total = IF r.op = "invalidateTags" THEN r.total ELSE 0]

\* the record of a call after a step: trimmed once the call has returned
Settle(r) == IF r.pc = "idle" THEN Done(r) ELSE r

CacheInit ==
    /\ store = [k \in Keys |-> NoValue]
    /\ tagSets = [t \in Tags |-> {}]
    /\ db = 0
    /\ proc = [p \in Procs |-> IdleProc]
    /\ opsStarted = 0
    /\ entryTags = [k \in Keys |-> {}]
    /\ invalidatedVer = [t \in Tags |-> 0]

\* an invalidateTag that does not await pipeline.exec(): its caller goes on
\* while the pipeline is still to be executed
InvalidateReturnedEarly(q) == proc[q].pc \in {"idle", "inv_exec"}

\* invalidateTag has returned to its caller: await pipeline.exec() is over
InvalidateReturned(q) == proc[q].pc = "idle"

\* the call of caller q has returned
Returned(q) ==
    IF proc[q].op = "invalidateTags"
    THEN InvalidateReturned(q)
    ELSE proc[q].pc = "idle"

\* callers are interchangeable: a new call is taken by the lowest-numbered
\* caller that has none in flight
CanStart(p) ==
    /\ proc[p].pc = "idle"
    /\ opsStarted < MaxOps
    /\ \A q \in Procs : q < p => proc[q].pc # "idle"

\* a call that is not alone: the history kept for a call that is (the value
\* a set wrote, the tags an invalidation was given) is dropped; the code
\* reads neither again
NotSolo(r) ==
    [r EXCEPT !.solo = FALSE, !.afterInv = FALSE,
              !.val = IF r.op = "set" THEN Null ELSE @,
              !.args = IF r.op = "invalidateTags" THEN <<>> ELSE @]

\* a call of another caller starts, or an entry expires: the caller is no
\* longer alone, and what it kept of a returned call is dropped
Disturbed(r) == IF r.pc = "idle" THEN IdleProc ELSE NotSolo(r)

\* caller p starts the call described by rec.  solo records that every other
\* call had returned when this one started and that nothing else has happened
\* since; afterInv records that the call is a set of a key which an
\* invalidation that had returned by then deleted
Begin(p, rec) ==
    /\ proc' = [q \in Procs |->
                  IF q = p
                  THEN IF \A r \in Procs \ {p} : Returned(r)
                       THEN Settle([rec EXCEPT
                               !.solo = TRUE,
                               !.afterInv =
                                   /\ rec.op = "set"
                                   /\ \E r \in Procs :
                                        /\ proc[r].op = "invalidateTags"
                                        /\ Returned(r)
                                        /\ rec.key \in proc[r].keysRead])
                       ELSE Settle(NotSolo(rec))
                  ELSE Disturbed(proc[q])]
    /\ opsStarted' = opsStarted + 1

\* this.client.setex(cacheKey, ttl, serialized)
SetEx(k, v, tags) ==
    /\ store' = [store EXCEPT ![k] = Serialize(v)]
    /\ entryTags' = [entryTags EXCEPT ![k] = tags]

\* where set goes after setex: if (options?.tags && options.tags.length > 0)
AfterSetEx(tags) == IF tags # {} THEN "set_tags" ELSE "idle"

\* set(key, value, {tags}): setex is issued in the turn of the call
StartSet(p, k, v, tags) ==
    /\ CanStart(p)
    /\ SetEx(k, v, tags)
    /\ Begin(p, [IdleProc EXCEPT !.op = "set", !.pc = AfterSetEx(tags),
                                 !.key = k, !.val = v, !.tags = tags])
    /\ UNCHANGED <<tagSets, db, invalidatedVer>>
    /\ UNCHANGED <<poolVars, loaderVars, swrVars, ttlVars, mwVars, monVars>>

\* addTagsToKey: the pipeline of sadd commands, once setex has replied
SetAddTags(p) ==
    /\ proc[p].pc = "set_tags"
    /\ tagSets' = [t \in Tags |->
                     IF t \in proc[p].tags
                     THEN tagSets[t] \cup {proc[p].key}
                     ELSE tagSets[t]]
    /\ proc' = [proc EXCEPT ![p] = Done(@)]
    /\ UNCHANGED <<store, db, opsStarted, entryTags, invalidatedVer>>
    /\ UNCHANGED <<poolVars, loaderVars, swrVars, ttlVars, mwVars, monVars>>

\* delete(key): del of the key, the tag sets are not touched
Delete(p, k) ==
    /\ CanStart(p)
    /\ store' = [store EXCEPT ![k] = NoValue]
    /\ entryTags' = [entryTags EXCEPT ![k] = {}]
    /\ Begin(p, [IdleProc EXCEPT !.op = "delete", !.key = k])
    /\ UNCHANGED <<tagSets, db, invalidatedVer>>
    /\ UNCHANGED <<poolVars, loaderVars, swrVars, ttlVars, mwVars, monVars>>

\* the TTL given to setex elapses: Redis drops the key, not its tag members
Expire(k) ==
    /\ Live(k)
    /\ opsStarted < MaxOps
    /\ opsStarted' = opsStarted + 1
    /\ store' = [store EXCEPT ![k] = NoValue]
    /\ entryTags' = [entryTags EXCEPT ![k] = {}]
    /\ proc' = [q \in Procs |-> Disturbed(proc[q])]
    /\ UNCHANGED <<tagSets, db, invalidatedVer>>
    /\ UNCHANGED <<poolVars, loaderVars, swrVars, ttlVars, mwVars, monVars>>

\* invalidateTag, first half: smembers of the next tag; an empty reply
\* returns 0 and the loop of invalidateTags moves on
AfterSmembers(r) ==
    LET keys == tagSets[Head(r.tagSeq)]
    IN  IF keys = {}
        THEN [r EXCEPT !.tagSeq = Tail(@), !.keysRead = {},
                       !.pc = IF Tail(r.tagSeq) = <<>> THEN "idle"
                              ELSE "inv_smembers"]
        ELSE [r EXCEPT !.keysRead = keys, !.pc = "inv_exec"]

\* the write-then-invalidate pattern: once the invalidation of a write has
\* returned, the write is recorded against every tag it invalidated
InvalidatedAfter(r) ==
    IF r.pc = "idle" /\ r.op = "write"
    THEN [t \in Tags |-> IF t \in Range(r.args)
                         THEN Max(invalidatedVer[t], r.ver)
                         ELSE invalidatedVer[t]]
    ELSE invalidatedVer

\* invalidateTags(tags) (and invalidateTag(tag)): the first smembers
StartInvalidateTags(p, seq) ==
    /\ CanStart(p)
    /\ Begin(p, AfterSmembers([IdleProc EXCEPT !.op = "invalidateTags",
                                               !.tagSeq = seq, !.args = seq]))
    /\ UNCHANGED <<store, tagSets, db, entryTags, invalidatedVer>>
    /\ UNCHANGED <<poolVars, loaderVars, swrVars, ttlVars, mwVars, monVars>>

\* invalidateTags: the loop calls invalidateTag for the next tag
InvSmembers(p) ==
    /\ proc[p].pc = "inv_smembers"
    /\ proc' = [proc EXCEPT ![p] = Settle(AfterSmembers(proc[p]))]
    /\ invalidatedVer' = InvalidatedAfter(AfterSmembers(proc[p]))
    /\ UNCHANGED <<store, tagSets, db, opsStarted, entryTags>>
    /\ UNCHANGED <<poolVars, loaderVars, swrVars, ttlVars, mwVars, monVars>>

\* the caller once the pipeline has replied: the count is added to the total
\* and the loop of invalidateTags moves on
AfterExec(r) ==
    [r EXCEPT !.total = @ + Cardinality(r.keysRead),
              !.tagSeq = Tail(@),
              !.pc = IF Tail(r.tagSeq) = <<>> THEN "idle" ELSE "inv_smembers"]

\* invalidateTag, second half: the pipeline deletes the keys that smembers
\* returned and then the tag set; deletedCount = keys.length
InvExec(p) ==
    /\ proc[p].pc = "inv_exec"
    /\ LET r == proc[p]
       IN  /\ store' = [k \in Keys |->
                          IF k \in r.keysRead THEN NoValue ELSE store[k]]
           /\ entryTags' = [k \in Keys |->
                              IF k \in r.keysRead THEN {} ELSE entryTags[k]]
           /\ tagSets' = [tagSets EXCEPT ![Head(r.tagSeq)] = {}]
           /\ proc' = [proc EXCEPT ![p] = Settle(AfterExec(r))]
           /\ invalidatedVer' = InvalidatedAfter(AfterExec(r))
    /\ UNCHANGED <<db, opsStarted>>
    /\ UNCHANGED <<poolVars, loaderVars, swrVars, ttlVars, mwVars, monVars>>

\* getOrSet(key, fetchFn, {tags}): the get; a hit returns the cached value
StartGetOrSet(p, k, tags) ==
    /\ CanStart(p)
    /\ LET cached == Get(k)
       IN  Begin(p, [IdleProc EXCEPT !.op = "getOrSet", !.key = k,
                                     !.tags = tags, !.val = cached,
                                     !.pc = IF cached # Null THEN "idle"
                                            ELSE "gos_miss"])
    /\ UNCHANGED <<store, tagSets, db, entryTags, invalidatedVer>>
    /\ UNCHANGED <<poolVars, loaderVars, swrVars, ttlVars, mwVars, monVars>>

\* getOrSet after a miss: fetchFn is invoked and reads the backing source
GosFetch(p) ==
    /\ proc[p].pc = "gos_miss"
    /\ proc' = [proc EXCEPT ![p].val = db, ![p].pc = "gos_fetching"]
    /\ UNCHANGED <<store, tagSets, db, opsStarted, entryTags, invalidatedVer>>
    /\ UNCHANGED <<poolVars, loaderVars, swrVars, ttlVars, mwVars, monVars>>

\* getOrSet once fetchFn has resolved: set(key, fresh, options) issues setex
GosSet(p) ==
    /\ proc[p].pc = "gos_fetching"
    /\ SetEx(proc[p].key, proc[p].val, proc[p].tags)
    /\ proc' = [proc EXCEPT ![p] =
                  Settle([@ EXCEPT !.pc = AfterSetEx(proc[p].tags)])]
    /\ UNCHANGED <<tagSets, db, opsStarted, invalidatedVer>>
    /\ UNCHANGED <<poolVars, loaderVars, swrVars, ttlVars, mwVars, monVars>>

\* a mutation endpoint: the update of the backing source ...
StartWrite(p, seq) ==
    /\ CanStart(p)
    /\ db < MaxVersion
    /\ db' = db + 1
    /\ Begin(p, [IdleProc EXCEPT !.op = "write", !.pc = "wr_written",
                                 !.tagSeq = seq, !.args = seq, !.ver = db + 1])
    /\ UNCHANGED <<store, tagSets, entryTags, invalidatedVer>>
    /\ UNCHANGED <<poolVars, loaderVars, swrVars, ttlVars, mwVars, monVars>>

\* ... and then, once it is awaited, invalidateCacheTags(tags)
WriteInvalidate(p) ==
    /\ proc[p].pc = "wr_written"
    /\ proc' = [proc EXCEPT ![p] = Settle(AfterSmembers(proc[p]))]
    /\ invalidatedVer' = InvalidatedAfter(AfterSmembers(proc[p]))
    /\ UNCHANGED <<store, tagSets, db, opsStarted, entryTags>>
    /\ UNCHANGED <<poolVars, loaderVars, swrVars, ttlVars, mwVars, monVars>>

\* the cache store and its tag index: set, delete, expiry and invalidation
TagNext ==
    \/ \E p \in Procs, k \in Keys, v \in SetValues, tags \in SUBSET Tags :
          StartSet(p, k, v, tags)
    \/ \E p \in Procs : SetAddTags(p)
    \/ \E p \in Procs, k \in Keys : Delete(p, k)
    \/ \E k \in Keys : Expire(k)
    \/ \E p \in Procs, seq \in TagSeqs : StartInvalidateTags(p, seq)
    \/ \E p \in Procs : InvSmembers(p)
    \/ \E p \in Procs : InvExec(p)

\* no cache call is in flight
Quiescent == \A p \in Procs : proc[p].pc = "idle"

\* the same calls made one at a time: a call starts, and an entry expires,
\* only when no call is in flight
TagSeqNext ==
    \/ /\ Quiescent
       /\ \E p \in Procs, k \in Keys, v \in SetValues, tags \in SUBSET Tags :
             StartSet(p, k, v, tags)
    \/ \E p \in Procs : SetAddTags(p)
    \/ Quiescent /\ \E p \in Procs, k \in Keys : Delete(p, k)
    \/ Quiescent /\ \E k \in Keys : Expire(k)
    \/ Quiescent /\ \E p \in Procs, seq \in TagSeqs : StartInvalidateTags(p, seq)
    \/ \E p \in Procs : InvSmembers(p)
    \/ \E p \in Procs : InvExec(p)

\* cache-aside readers beside writers that update the source, then invalidate
AsideNext ==
    \/ \E p \in Procs, k \in Keys, tags \in SUBSET Tags : StartGetOrSet(p, k, tags)
    \/ \E p \in Procs : GosFetch(p)
    \/ \E p \in Procs : GosSet(p)
    \/ \E p \in Procs : SetAddTags(p)
    \/ \E p \in Procs, seq \in TagSeqs : StartWrite(p, seq)
    \/ \E p \in Procs : WriteInvalidate(p)
    \/ \E p \in Procs : InvSmembers(p)
    \/ \E p \in Procs : InvExec(p)
    \/ \E k \in Keys : Expire(k)

(***************************************************************************)
(* BatchQueryExecutor.createDataLoader: the loader function it returns     *)
(***************************************************************************)
\* batchTimeout = null
NoTimer == -1

\* a key that the cache Map does not hold; a load that has no result yet
NoResult == [none |-> TRUE]

\* what batchFn returns for a key it finds, read from the data at version v
Found(k, v) == [key |-> k, ver |-> v]

\* the Error that batchFn returns in the place of a key it does not find
KeyError(k) == [err |-> k]

\* the error of a batchFn call that rejects as a whole
Thrown == [err |-> "thrown"]

\* result instanceof Error
IsError(r) == "err" \in DOMAIN r

NewLoad == [key |-> "k1", status |-> "new", result |-> NoResult,
            hit |-> FALSE, batch |-> 0]

\* createDataLoader(batchFn, {cache: c, maxBatchSize})
LoaderInit(c) ==
    /\ memo = c
    /\ loaderCache = [k \in Keys |-> NoResult]
    /\ batchQueue = <<>>
    /\ batchTimeout = NoTimer
    /\ batches = {}
    /\ loads = [l \in Loads |-> NewLoad]
    /\ nextLoad = 1
    /\ waited = 0
    /\ srcVer = 0
    /\ srcMissing = {}

\* cache?.has(key)
CacheHas(k) == memo /\ loaderCache[k] # NoResult

\* the values with which earlier load(k) calls have resolved so far
ResolvedSoFar(k) ==
    {loads[l].result : l \in {m \in Loads : /\ loads[m].key = k
                                            /\ loads[m].status = "resolved"}}

\* a timer that every enqueue starts afresh
TimeoutRestarted(timeout) == batchDelay

\* else if (!batchTimeout) batchTimeout = setTimeout(executeBatch, batchDelay)
TimeoutAfterEnqueue(timeout) ==
    IF timeout = NoTimer THEN batchDelay ELSE timeout

\* an executeBatch that leaves the timer handle as it found it
TimeoutKeptRunning(timeout) == timeout

\* if (batchTimeout) clearTimeout(batchTimeout), then executeBatch sets
\* batchTimeout = null; a timer that fired has no callback left to run
TimeoutAfterDispatch(timeout) == NoTimer

\* currentBatch.map(item => item.key)
BatchKeys(items) == [i \in 1..Len(items) |-> loads[items[i]].key]

\* load(key): answered from the cache Map, or pushed on batchQueue; the push
\* that fills the batch runs executeBatch in the same turn
Load(k) ==
    /\ nextLoad <= MaxLoads
    /\ nextLoad' = nextLoad + 1
    /\ LET n == nextLoad
           called == [NewLoad EXCEPT !.key = k]
       IN  IF CacheHas(k)
           THEN /\ loads' = [loads EXCEPT ![n] =
                                [called EXCEPT !.status = "resolved",
                                               !.result = loaderCache[k],
                                               !.hit = TRUE]]
                /\ UNCHANGED <<batchQueue, batchTimeout, batches, waited>>
           ELSE /\ loads' = [loads EXCEPT ![n] =
                                [called EXCEPT !.status = "pending"]]
                /\ LET q == Append(batchQueue, n)
                   IN  IF Len(q) >= maxBatchSize
                       THEN /\ batches' = batches \cup {q}
                            /\ batchQueue' = <<>>
                            /\ batchTimeout' = TimeoutAfterDispatch(batchTimeout)
                            /\ waited' = 0
                       ELSE /\ batchQueue' = q
                            /\ batchTimeout' = TimeoutAfterEnqueue(batchTimeout)
                            /\ UNCHANGED <<batches, waited>>
    /\ UNCHANGED <<memo, loaderCache, srcVer, srcMissing>>
    /\ UNCHANGED <<poolVars, cacheVars, swrVars, ttlVars, mwVars, monVars>>

\* the batch timer fires: executeBatch takes the whole queue
BatchTimerFires ==
    /\ batchTimeout = 0
    /\ batches' = batches \cup {batchQueue}
    /\ batchQueue' = <<>>
    /\ batchTimeout' = TimeoutAfterDispatch(batchTimeout)
    /\ waited' = 0
    /\ UNCHANGED <<memo, loaderCache, loads, nextLoad, srcVer, srcMissing>>
    /\ UNCHANGED <<poolVars, cacheVars, swrVars, ttlVars, mwVars, monVars>>

\* a delivery that fails the whole batch when one result is an Error
SettledAllOrNothing(ld, items, results) ==
    [l \in Loads |->
        IF \E i \in 1..Len(items) : items[i] = l
        THEN LET i == CHOOSE j \in 1..Len(items) : items[j] = l
                 bad == {j \in 1..Len(items) : IsError(results[j])}
             IN  IF bad # {}
                 THEN [ld[l] EXCEPT !.status = "rejected", !.batch = items[1],
                                    !.result = results[CHOOSE j \in bad : TRUE]]
                 ELSE [ld[l] EXCEPT !.status = "resolved", !.batch = items[1],
                                    !.result = results[i]]
        ELSE ld[l]]

\* a delivery that settles the first item of the batch and forgets the rest
SettledFirstOnly(ld, items, results) ==
    [l \in Loads |->
        IF items[1] = l
        THEN IF IsError(results[1])
             THEN [ld[l] EXCEPT !.status = "rejected", !.batch = items[1],
                                !.result = results[1]]
             ELSE [ld[l] EXCEPT !.status = "resolved", !.batch = items[1],
                                !.result = results[1]]
        ELSE ld[l]]

\* currentBatch.forEach((item, index) => ...): item.reject(result) for an
\* Error, item.resolve(result) otherwise, each from its own index
Settled(ld, items, results) ==
    [l \in Loads |->
        IF \E i \in 1..Len(items) : items[i] = l
        THEN LET i == CHOOSE j \in 1..Len(items) : items[j] = l
             IN  IF IsError(results[i])
                 THEN [ld[l] EXCEPT !.status = "rejected", !.batch = items[1],
                                    !.result = results[i]]
                 ELSE [ld[l] EXCEPT !.status = "resolved", !.batch = items[1],
                                    !.result = results[i]]
        ELSE ld[l]]

\* if (cache) cache.set(item.key, result), in the order of the batch
Memoized(c, items, results) ==
    [k \in Keys |->
        LET idx == {i \in 1..Len(items) :
                       loads[items[i]].key = k /\ ~IsError(results[i])}
        IN  IF memo /\ idx # {}
            THEN results[CHOOSE i \in idx : \A j \in idx : j <= i]
            ELSE c[k]]

\* what batchFn(keys) returns, one result per position: an Error for the
\* keys it does not find, the stored data for the others (as userLoader does)
BatchResults(b) ==
    [i \in 1..Len(b) |->
        IF BatchKeys(b)[i] \in srcMissing THEN KeyError(BatchKeys(b)[i])
        ELSE Found(BatchKeys(b)[i], srcVer)]

\* the promise of batchFn(keys) fulfils and the results are handed out
BatchFnResolves(b) ==
    /\ b \in batches
    /\ loads' = Settled(loads, b, BatchResults(b))
    /\ loaderCache' = Memoized(loaderCache, b, BatchResults(b))
    /\ batches' = batches \ {b}
    /\ UNCHANGED <<memo, batchQueue, batchTimeout, nextLoad, waited, srcVer,
                   srcMissing>>
    /\ UNCHANGED <<poolVars, cacheVars, swrVars, ttlVars, mwVars, monVars>>

\* the promise of batchFn(keys) rejects: the catch block rejects every item
BatchFnRejects(b) ==
    /\ b \in batches
    /\ loads' = [l \in Loads |->
                    IF \E i \in 1..Len(b) : b[i] = l
                    THEN [loads[l] EXCEPT !.status = "rejected", !.batch = b[1],
                                          !.result = Thrown]
                    ELSE loads[l]]
    /\ batches' = batches \ {b}
    /\ UNCHANGED <<memo, loaderCache, batchQueue, batchTimeout, nextLoad,
                   waited, srcVer, srcMissing>>
    /\ UNCHANGED <<poolVars, cacheVars, swrVars, ttlVars, mwVars, monVars>>

\* a writer changes the data that batchFn reads: rows updated, some deleted
SourceChanges(missing) ==
    /\ srcVer < MaxSrcVer
    /\ srcVer' = srcVer + 1
    /\ srcMissing' = missing
    /\ UNCHANGED <<memo, loaderCache, batchQueue, batchTimeout, batches, loads,
                   nextLoad, waited>>
    /\ UNCHANGED <<poolVars, cacheVars, swrVars, ttlVars, mwVars, monVars>>

\* a tick of the clock while the batch timer runs; a timer that is due fires
\* before the next tick
Tick ==
    /\ batchTimeout > 0
    /\ batchTimeout' = batchTimeout - 1
    /\ waited' = waited + 1
    /\ UNCHANGED <<memo, loaderCache, batchQueue, batches, loads, nextLoad,
                   srcVer, srcMissing>>
    /\ UNCHANGED <<poolVars, cacheVars, swrVars, ttlVars, mwVars, monVars>>

LoaderNext ==
    \/ \E k \in Keys : Load(k)
    \/ BatchTimerFires
    \/ \E b \in batches : BatchFnResolves(b)
    \/ \E b \in batches : BatchFnRejects(b)
    \/ \E missing \in SUBSET Keys : SourceChanges(missing)
    \/ Tick

(***************************************************************************)
(* getWithRevalidate(key, fetchFn, options)                                *)
(***************************************************************************)
\* a getWithRevalidate call that has not been made
NewSwrCall ==
    [key |-> "k1", tags |-> {}, state |-> "new", ret |-> Null, bg |-> "none",
     fresh |-> Null, found |-> "none"]

\* the options.tags that callers of getWithRevalidate pass
SwrTagSets == {{}, {"t1"}}

SwrInit ==
    /\ swrCalls = [c \in SwrCalls |-> NewSwrCall]
    /\ nextSwr = 1
    /\ aged = {}

\* a hit that waits for fetchFn as a miss does
HitAwaitsFetch(call, cached) == [call EXCEPT !.state = "fetching"]

\* if (cached !== null): setImmediate(...) is called and cached is returned
HitReturns(call, cached) ==
    [call EXCEPT !.state = "returned", !.ret = cached, !.bg = "scheduled"]

\* a refresh whose cache.set is skipped
FreshDropped(st, k, v) == st

\* cache.set(key, fresh, options): setex stores the serialized fresh value
FreshStored(st, k, v) == [st EXCEPT ![k] = Serialize(v)]

\* a catch block that deletes the entry when the refresh fails
EntryDeletedOnError(st, k) == [st EXCEPT ![k] = NoValue]

\* catch (error) { console.error(...) }: the entry is left as it is
EntryAfterError(st, k) == st

\* the call: cache.get is issued in the turn of the call; on a hit the refresh
\* is handed to setImmediate and the cached value returned, on a miss fetchFn
\* is invoked and awaited
StartGetWithRevalidate(k, tags) ==
    /\ nextSwr <= MaxSwrCalls
    /\ nextSwr' = nextSwr + 1
    /\ LET call == [NewSwrCall EXCEPT
                       !.key = k, !.tags = tags,
                       !.found = IF ~Live(k) THEN "miss"
                                 ELSE IF k \in aged THEN "stale" ELSE "fresh"]
       IN  swrCalls' = [swrCalls EXCEPT ![nextSwr] =
                           IF Get(k) # Null
                           THEN HitReturns(call, Get(k))
                           ELSE [call EXCEPT !.state = "fetching"]]
    /\ UNCHANGED <<cacheVars, aged>>
    /\ UNCHANGED <<poolVars, loaderVars, ttlVars, mwVars, monVars>>

\* miss: fetchFn resolves, cache.set issues setex; without tags set returns
\* and the call returns fresh
MissFetchResolves(c) ==
    /\ swrCalls[c].state = "fetching"
    /\ store' = FreshStored(store, swrCalls[c].key, db)
    /\ entryTags' = [entryTags EXCEPT ![swrCalls[c].key] = swrCalls[c].tags]
    /\ aged' = aged \ {swrCalls[c].key}
    /\ swrCalls' = [swrCalls EXCEPT ![c] =
                       IF swrCalls[c].tags # {}
                       THEN [@ EXCEPT !.state = "setting", !.fresh = db]
                       ELSE [@ EXCEPT !.state = "returned", !.fresh = db,
                                      !.ret = db]]
    /\ UNCHANGED <<tagSets, db, proc, opsStarted, invalidatedVer, nextSwr>>
    /\ UNCHANGED <<poolVars, loaderVars, ttlVars, mwVars, monVars>>

\* miss: fetchFn rejects and the call rejects with its error
MissFetchRejects(c) ==
    /\ swrCalls[c].state = "fetching"
    /\ swrCalls' = [swrCalls EXCEPT ![c].state = "rejected"]
    /\ UNCHANGED <<cacheVars, nextSwr, aged>>
    /\ UNCHANGED <<poolVars, loaderVars, ttlVars, mwVars, monVars>>

\* miss: addTagsToKey of cache.set is done, the call returns fresh
MissAddTags(c) ==
    /\ swrCalls[c].state = "setting"
    /\ tagSets' = [t \in Tags |->
                      IF t \in swrCalls[c].tags
                      THEN tagSets[t] \cup {swrCalls[c].key}
                      ELSE tagSets[t]]
    /\ swrCalls' = [swrCalls EXCEPT ![c].state = "returned",
                                    ![c].ret = swrCalls[c].fresh,
                                    ![c].tags = {}]
    /\ UNCHANGED <<store, db, proc, opsStarted, entryTags, invalidatedVer,
                   nextSwr, aged>>
    /\ UNCHANGED <<poolVars, loaderVars, ttlVars, mwVars, monVars>>

\* the setImmediate callback runs and invokes fetchFn
BackgroundRuns(c) ==
    /\ swrCalls[c].bg = "scheduled"
    /\ swrCalls' = [swrCalls EXCEPT ![c].bg = "fetching"]
    /\ UNCHANGED <<cacheVars, nextSwr, aged>>
    /\ UNCHANGED <<poolVars, loaderVars, ttlVars, mwVars, monVars>>

\* the background fetchFn resolves and cache.set issues setex
BackgroundFetchResolves(c) ==
    /\ swrCalls[c].bg = "fetching"
    /\ store' = FreshStored(store, swrCalls[c].key, db)
    /\ entryTags' = [entryTags EXCEPT ![swrCalls[c].key] = swrCalls[c].tags]
    /\ aged' = aged \ {swrCalls[c].key}
    /\ swrCalls' = [swrCalls EXCEPT
                       ![c].fresh = db,
                       ![c].bg = IF swrCalls[c].tags # {} THEN "setting"
                                 ELSE "done"]
    /\ UNCHANGED <<tagSets, db, proc, opsStarted, invalidatedVer, nextSwr>>
    /\ UNCHANGED <<poolVars, loaderVars, ttlVars, mwVars, monVars>>

\* the background fetchFn rejects: the catch block logs the error
BackgroundFetchRejects(c) ==
    /\ swrCalls[c].bg = "fetching"
    /\ store' = EntryAfterError(store, swrCalls[c].key)
    /\ swrCalls' = [swrCalls EXCEPT ![c].bg = "failed"]
    /\ UNCHANGED <<tagSets, db, proc, opsStarted, entryTags, invalidatedVer,
                   nextSwr, aged>>
    /\ UNCHANGED <<poolVars, loaderVars, ttlVars, mwVars, monVars>>

\* the background cache.set finishes with addTagsToKey
BackgroundAddTags(c) ==
    /\ swrCalls[c].bg = "setting"
    /\ tagSets' = [t \in Tags |->
                      IF t \in swrCalls[c].tags
                      THEN tagSets[t] \cup {swrCalls[c].key}
                      ELSE tagSets[t]]
    /\ swrCalls' = [swrCalls EXCEPT ![c].bg = "done", ![c].tags = {}]
    /\ UNCHANGED <<store, db, proc, opsStarted, entryTags, invalidatedVer,
                   nextSwr, aged>>
    /\ UNCHANGED <<poolVars, loaderVars, ttlVars, mwVars, monVars>>

\* a writer changes the data that fetchFn reads
SourceWritten ==
    /\ db < MaxVersion
    /\ db' = db + 1
    /\ UNCHANGED <<store, tagSets, proc, opsStarted, entryTags, invalidatedVer>>
    /\ UNCHANGED <<poolVars, loaderVars, swrVars, ttlVars, mwVars, monVars>>

\* time passes: the entry of k becomes older than options.staleTime
EntryAges(k) ==
    /\ Live(k)
    /\ k \notin aged
    /\ aged' = aged \cup {k}
    /\ UNCHANGED <<cacheVars, swrCalls, nextSwr>>
    /\ UNCHANGED <<poolVars, loaderVars, ttlVars, mwVars, monVars>>

\* time passes: the ttl of the entry of k runs out
EntryExpires(k) ==
    /\ Live(k)
    /\ k \in aged
    /\ store' = [store EXCEPT ![k] = NoValue]
    /\ entryTags' = [entryTags EXCEPT ![k] = {}]
    /\ aged' = aged \ {k}
    /\ UNCHANGED <<tagSets, db, proc, opsStarted, invalidatedVer, swrCalls,
                   nextSwr>>
    /\ UNCHANGED <<poolVars, loaderVars, ttlVars, mwVars, monVars>>

SwrNext ==
    \/ \E k \in Keys, tags \in SwrTagSets : StartGetWithRevalidate(k, tags)
    \/ \E c \in SwrCalls : MissFetchResolves(c)
    \/ \E c \in SwrCalls : MissFetchRejects(c)
    \/ \E c \in SwrCalls : MissAddTags(c)
    \/ \E c \in SwrCalls : BackgroundRuns(c)
    \/ \E c \in SwrCalls : BackgroundFetchResolves(c)
    \/ \E c \in SwrCalls : BackgroundFetchRejects(c)
    \/ \E c \in SwrCalls : BackgroundAddTags(c)
    \/ SourceWritten
    \/ \E k \in Keys : EntryAges(k)
    \/ \E k \in Keys : EntryExpires(k)

(***************************************************************************)
(* RedisCache.set(key, value, {ttl}) and the expiry of entries             *)
(***************************************************************************)
\* the ttl values passed to set: -1 and 0 are not positive
TtlArgs == (0 - 1)..MaxTtl

\* no set has been called for the key
NoSet == [called |-> FALSE, val |-> Null, given |-> FALSE, ttl |-> 0,
          ok |-> FALSE, age |-> 0]

TtlInit ==
    /\ expiresIn = [k \in Keys |-> 0]
    /\ lastSet = [k \in Keys |-> NoSet]

\* a set that always stores with the default ttl of the configuration
ConfigTtlOnly(given, ttl) == configTtl

\* const ttl = options?.ttl || this.config.ttl || 3600: an absent ttl and a
\* ttl of 0 are falsy and fall through to the configuration's
EffectiveTtl(given, ttl) ==
    IF given /\ ttl # 0 THEN ttl
    ELSE IF configTtl # 0 THEN configTtl ELSE 3600

\* SETEX key seconds value: Redis rejects seconds <= 0 with
\* "ERR invalid expire time" and stores nothing
SetexAccepts(seconds) == seconds > 0

\* set(key, value, {ttl}) without tags: the value is serialized and stored
\* by setex with the effective ttl, and true is returned; when setex throws,
\* the catch returns false
SetWithTtl(k, v, given, ttl) ==
    LET seconds == EffectiveTtl(given, ttl)
        stored == SetexAccepts(seconds)
    IN  /\ store' = [store EXCEPT ![k] = IF stored THEN Serialize(v) ELSE @]
        /\ entryTags' = [entryTags EXCEPT ![k] = IF stored THEN {} ELSE @]
        /\ expiresIn' = [expiresIn EXCEPT ![k] = IF stored THEN seconds ELSE @]
        /\ lastSet' = [lastSet EXCEPT ![k] =
                         [called |-> TRUE, val |-> v, given |-> given,
                          ttl |-> ttl, ok |-> stored, age |-> 0]]
        /\ UNCHANGED <<tagSets, db, proc, opsStarted, invalidatedVer>>
        /\ UNCHANGED <<poolVars, loaderVars, swrVars, mwVars, monVars>>

\* one second passes: Redis counts every ttl down and removes the entries
\* whose ttl has run out
SecondPasses ==
    /\ \E k \in Keys : lastSet[k].called /\ lastSet[k].age <= configTtl
    /\ expiresIn' = [k \in Keys |-> IF expiresIn[k] > 0 THEN expiresIn[k] - 1
                                    ELSE 0]
    /\ store' = [k \in Keys |-> IF expiresIn[k] = 1 THEN NoValue ELSE store[k]]
    /\ entryTags' = [k \in Keys |-> IF expiresIn[k] = 1 THEN {}
                                    ELSE entryTags[k]]
    /\ lastSet' = [k \in Keys |->
                     IF lastSet[k].called /\ lastSet[k].age <= configTtl
                     THEN [lastSet[k] EXCEPT !.age = @ + 1]
                     ELSE lastSet[k]]
    /\ UNCHANGED <<tagSets, db, proc, opsStarted, invalidatedVer>>
    /\ UNCHANGED <<poolVars, loaderVars, swrVars, mwVars, monVars>>

TtlNext ==
    \/ \E k \in Keys, v \in SetValues, ttl \in TtlArgs :
          SetWithTtl(k, v, TRUE, ttl)
    \/ \E k \in Keys, v \in SetValues : SetWithTtl(k, v, FALSE, 0)
    \/ SecondPasses

(***************************************************************************)
(* withCache(handler, {ttl, tags, shouldCache, skipCache})                 *)
(***************************************************************************)
\* options.tags and options.ttl of the wrapper
MwTags == {"t1"}
MwTtl == MaxTtl

\* the keys that keyGenerator gives the requests: they are all for one URL
MwKeys == {"k1"}

\* the statuses of the responses the handler produces
Statuses == {200, 404}

\* what options.shouldCache does for a response: the option is absent, or
\* it is a predicate that returns true or false
ShouldCacheOptions == {"undefined", "true", "false"}

\* a request as it arrives
NewRequest ==
    [method |-> "GET", skip |-> FALSE, key |-> "k1", sc |-> "undefined",
     state |-> "new", path |-> "none", got |-> Null, getFailed |-> FALSE,
     setFailed |-> FALSE, handlerRuns |-> 0, status |-> 0, body |-> Null,
     xcache |-> "none", stored |-> FALSE, cacheOps |-> 0]

MwInit == requests = <<>>

\* a wrapper that consults the cache whatever skipCache says
CacheableIgnoringSkip(method, skip) == method = "GET"

\* if (req.method !== 'GET') return handler(req);
\* if (options.skipCache && options.skipCache(req)) return handler(req);
Cacheable(method, skip) == method = "GET" /\ ~skip

\* RedisCache.get: the parsed value, or null on a miss; when client.get
\* throws, the catch logs the error and returns null as well
GetOrNull(k, fails) == IF fails THEN Null ELSE Get(k)

\* a wrapper that runs the handler whatever cache.get returned
AfterGetRunsHandler(r, cached) ==
    [r EXCEPT !.got = cached, !.path = "miss", !.state = "running",
              !.handlerRuns = @ + 1]

\* the wrapper once cache.get has replied: a cached value is returned with
\* X-Cache: HIT and status 200, otherwise the handler is invoked
AfterGet(r, cached) ==
    IF cached # Null
    THEN [r EXCEPT !.got = cached, !.path = "hit", !.state = "done",
                   !.status = 200, !.body = cached, !.xcache = "HIT"]
    ELSE [r EXCEPT !.got = cached, !.path = "miss", !.state = "running",
                   !.handlerRuns = @ + 1]

\* a request arrives at the wrapper: a request that is not a GET or for which
\* skipCache holds goes straight to the handler, any other request reads the
\* cache under the key keyGenerator gives it; options.shouldCache is not
\* consulted on a hit
WithCache(method, skip, k, sc, getFails) ==
    /\ Len(requests) < MaxRequests
    /\ LET r == [NewRequest EXCEPT !.method = method, !.skip = skip]
           c == [r EXCEPT !.key = k, !.cacheOps = @ + 1,
                          !.getFailed = getFails]
       IN  requests' = Append(requests,
              IF Cacheable(method, skip)
              THEN IF AfterGet(c, GetOrNull(k, getFails)).state = "done"
                   THEN AfterGet(c, GetOrNull(k, getFails))
                   ELSE [AfterGet(c, GetOrNull(k, getFails))
                           EXCEPT !.sc = sc]
              ELSE [r EXCEPT !.path = "bypass", !.state = "running",
                             !.handlerRuns = @ + 1])
    /\ UNCHANGED <<poolVars, cacheVars, loaderVars, swrVars, ttlVars, monVars>>

\* the handler reads the backing source and resolves with a response; outside
\* the try block of withCache the promise of the handler is the wrapper's, so
\* the response is the caller's
HandlerResolves(i, status) ==
    /\ i \in DOMAIN requests
    /\ requests[i].state = "running"
    /\ requests' = [requests EXCEPT ![i] =
          IF @.path = "miss"
          THEN [@ EXCEPT !.state = "resolved", !.status = status,
                         !.body = db, !.getFailed = FALSE]
          ELSE [@ EXCEPT !.state = "done", !.getFailed = FALSE]]
    /\ UNCHANGED <<poolVars, cacheVars, loaderVars, swrVars, ttlVars, monVars>>

\* the handler rejects: outside the try block the rejection is the caller's;
\* inside it the catch logs the error and calls handler(req) again
HandlerRejects(i) ==
    /\ i \in DOMAIN requests
    /\ requests[i].state = "running"
    /\ requests' = [requests EXCEPT ![i] =
          IF @.path = "miss"
          THEN [@ EXCEPT !.path = "fallback", !.handlerRuns = @ + 1,
                         !.sc = "undefined", !.key = "k1",
                         !.getFailed = FALSE]
          ELSE [@ EXCEPT !.state = "threw", !.getFailed = FALSE]]
    /\ UNCHANGED <<poolVars, cacheVars, loaderVars, swrVars, ttlVars, monVars>>

\* const shouldCache = options.shouldCache
\*   ? options.shouldCache(req, response) : response.status === 200
ShouldCache(r) == IF r.sc = "undefined" THEN r.status = 200 ELSE r.sc = "true"

\* if (shouldCache && response.status === 200)
Stores(r) == ShouldCache(r) /\ r.status = 200

\* the handler has resolved after a miss and its response is not to be
\* stored: it is returned as it is
MissNotStored(i) ==
    /\ i \in DOMAIN requests
    /\ requests[i].path = "miss"
    /\ requests[i].state = "resolved"
    /\ ~Stores(requests[i])
    /\ requests' = [requests EXCEPT ![i].state = "done", ![i].body = Null,
                                    ![i].key = "k1"]
    /\ UNCHANGED <<poolVars, cacheVars, loaderVars, swrVars, ttlVars, monVars>>

\* the response returned once cache.set has returned: the data, the status
\* and X-Cache: MISS
MissResponse(r) ==
    [r EXCEPT !.state = "done", !.xcache = "MISS", !.body = Null,
              !.key = "k1"]

\* the handler has resolved after a miss and its response is to be stored:
\* cache.set(cacheKey, data, {ttl, tags}) issues setex; when setex throws,
\* set returns false, the tags are not added and the response is returned
MissStored(i, setFails) ==
    /\ i \in DOMAIN requests
    /\ requests[i].path = "miss"
    /\ requests[i].state = "resolved"
    /\ Stores(requests[i])
    /\ LET r == [requests[i] EXCEPT !.setFailed = setFails,
                                    !.stored = ~setFails, !.cacheOps = @ + 1]
       IN  /\ IF setFails
              THEN UNCHANGED <<store, entryTags, expiresIn>>
              ELSE /\ SetEx(r.key, r.body, MwTags)
                   /\ expiresIn' = [expiresIn EXCEPT ![r.key] =
                                      EffectiveTtl(TRUE, MwTtl)]
           /\ requests' = [requests EXCEPT ![i] =
                 IF setFails \/ MwTags = {} THEN MissResponse(r)
                 ELSE [r EXCEPT !.state = "add_tags", !.body = Null]]
    /\ UNCHANGED <<tagSets, db, proc, opsStarted, invalidatedVer, lastSet>>
    /\ UNCHANGED <<poolVars, loaderVars, swrVars, monVars>>

\* addTagsToKey of the wrapper's set: the pipeline of sadd commands; set
\* returns and the response is returned
MissAddsTags(i) ==
    /\ i \in DOMAIN requests
    /\ requests[i].state = "add_tags"
    /\ tagSets' = [t \in Tags |->
                     IF t \in MwTags THEN tagSets[t] \cup {requests[i].key}
                     ELSE tagSets[t]]
    /\ requests' = [requests EXCEPT ![i] =
                      MissResponse([@ EXCEPT !.cacheOps = @ + 1])]
    /\ UNCHANGED <<store, db, proc, opsStarted, entryTags, invalidatedVer>>
    /\ UNCHANGED <<poolVars, loaderVars, swrVars, ttlVars, monVars>>

MwNext ==
    \/ \E method \in {"GET", "POST"}, skip \in BOOLEAN, k \in MwKeys,
          sc \in ShouldCacheOptions, getFails \in BOOLEAN :
             WithCache(method, skip, k, sc, getFails)
    \/ \E i \in Requests, status \in Statuses : HandlerResolves(i, status)
    \/ \E i \in Requests : HandlerRejects(i)
    \/ \E i \in Requests : MissNotStored(i)
    \/ \E i \in Requests, setFails \in BOOLEAN : MissStored(i, setFails)
    \/ \E i \in Requests : MissAddsTags(i)
    \/ SourceWritten

(***************************************************************************)
(* QueryPerformanceMonitor and monitoredQuery                              *)
(***************************************************************************)
\* the names passed to monitoredQuery
QueryNames == {"getLeaderboard", "getUserQuizAttempts"}

\* a log that keeps its oldest entries when it is trimmed
SliceOldest(log) == SubSeq(log, 1, maxLogSize)

\* this.queryLogs.slice(-this.maxLogSize): the last maxLogSize entries
SliceNewest(log) == SubSeq(log, Len(log) - maxLogSize + 1, Len(log))

\* logQuery(query, duration, stackTrace): the entry is pushed and the log is
\* trimmed when it has grown beyond maxLogSize; n is the history number of
\* the entry
LogQuery(query) ==
    LET pushed == Append(queryLogs, [query |-> query, n |-> logged + 1])
    IN  /\ queryLogs' = IF Len(pushed) > maxLogSize THEN SliceNewest(pushed)
                        ELSE pushed
        /\ logged' = logged + 1
        /\ UNCHANGED clearedAt

\* `[ERROR] ${queryName}`
ErrorName(queryName) == <<"[ERROR]", queryName>>

\* monitoredQuery(queryFn, queryName): queryFn is called
MonitoredQuery(queryName) ==
    /\ Len(queries) < MaxQueries
    /\ queries' = Append(queries, [name |-> queryName, state |-> "running"])
    /\ UNCHANGED <<queryLogs, logged, clearedAt, queryPatterns, tracked,
                   windows>>
    /\ UNCHANGED <<poolVars, cacheVars, loaderVars, swrVars, ttlVars, mwVars>>

\* the promise of queryFn resolves: the query is logged under its name
QueryResolves(c) ==
    /\ c \in DOMAIN queries
    /\ queries[c].state = "running"
    /\ LogQuery(<<queries[c].name>>)
    /\ queries' = [queries EXCEPT ![c].state = "resolved"]
    /\ UNCHANGED <<queryPatterns, tracked, windows>>
    /\ UNCHANGED <<poolVars, cacheVars, loaderVars, swrVars, ttlVars, mwVars>>

\* the promise of queryFn rejects: the query is logged as an error and the
\* error is thrown again
QueryRejects(c) ==
    /\ c \in DOMAIN queries
    /\ queries[c].state = "running"
    /\ LogQuery(ErrorName(queries[c].name))
    /\ queries' = [queries EXCEPT ![c].state = "rejected"]
    /\ UNCHANGED <<queryPatterns, tracked, windows>>
    /\ UNCHANGED <<poolVars, cacheVars, loaderVars, swrVars, ttlVars, mwVars>>

\* queryMonitor.clear()
Clear ==
    /\ queryLogs # <<>>
    /\ queryLogs' = <<>>
    /\ clearedAt' = logged
    /\ UNCHANGED <<logged, queries, queryPatterns, tracked, windows>>
    /\ UNCHANGED <<poolVars, cacheVars, loaderVars, swrVars, ttlVars, mwVars>>

MonitorNext ==
    \/ \E queryName \in QueryNames : MonitoredQuery(queryName)
    \/ \E c \in QueryCalls : QueryResolves(c)
    \/ \E c \in QueryCalls : QueryRejects(c)
    \/ Clear

(***************************************************************************)
(* N1QueryDetector                                                         *)
(***************************************************************************)
\* the tokens a tracked query is made of: words in either case, numeric
\* literals, string literals and a quoted identifier, each with its characters
Tokens ==
    {[kind |-> "word", text |-> <<"a">>],
     [kind |-> "word", text |-> <<"A">>],
     [kind |-> "number", text |-> <<"1">>],
     [kind |-> "number", text |-> <<"2", "5">>],
     [kind |-> "number", text |-> <<"1", ".", "5">>],
     [kind |-> "string", text |-> <<"'", "a", "'">>],
     [kind |-> "string", text |-> <<"'", "b", "1", "'">>],
     [kind |-> "quoted", text |-> <<"\"", "a", "\"">>]}

\* the signatures passed to trackQuery: sequences of tokens
Signatures == UNION {[1..n -> Tokens] : n \in 1..MaxTokens}

\* the query string of a signature: its tokens separated by one space
RECURSIVE Render(_)
Render(sig) ==
    IF Len(sig) = 1 THEN sig[1].text
    ELSE sig[1].text \o <<" ">> \o Render(Tail(sig))

IsDigit(c) == c \in {"0", "1", "2", "3", "4", "5", "6", "7", "8", "9"}

\* the characters of s after its leading digits
RECURSIVE AfterDigits(_)
AfterDigits(s) ==
    IF s # <<>> /\ IsDigit(Head(s)) THEN AfterDigits(Tail(s)) ELSE s

\* .replace(/\d+/g, '?'): every maximal run of digits becomes one '?'
RECURSIVE ReplaceNumbers(_)
ReplaceNumbers(s) ==
    IF s = <<>> THEN <<>>
    ELSE IF IsDigit(Head(s)) THEN <<"?">> \o ReplaceNumbers(AfterDigits(s))
    ELSE <<Head(s)>> \o ReplaceNumbers(Tail(s))

\* the position of the first q in s, or 0
RECURSIVE IndexOf(_, _)
IndexOf(s, q) ==
    IF s = <<>> THEN 0
    ELSE IF Head(s) = q THEN 1
    ELSE IF IndexOf(Tail(s), q) = 0 THEN 0 ELSE IndexOf(Tail(s), q) + 1

\* .replace(/q[^q]*q/g, '?'): from left to right, a quote character q and
\* everything up to the next q become one '?'
RECURSIVE ReplaceQuoted(_, _)
ReplaceQuoted(s, q) ==
    IF s = <<>> THEN <<>>
    ELSE IF Head(s) = q /\ IndexOf(Tail(s), q) > 0
    THEN <<"?">> \o ReplaceQuoted(SubSeq(Tail(s), IndexOf(Tail(s), q) + 1,
                                         Len(Tail(s))), q)
    ELSE <<Head(s)>> \o ReplaceQuoted(Tail(s), q)

\* .toLowerCase(), for the letters of the tokens
LowerChar(c) == IF c = "A" THEN "a" ELSE IF c = "B" THEN "b" ELSE c
ToLowerCase(s) == [i \in 1..Len(s) |-> LowerChar(s[i])]

\* .trim(): leading and trailing spaces are removed
RECURSIVE TrimStart(_)
TrimStart(s) == IF s # <<>> /\ Head(s) = " " THEN TrimStart(Tail(s)) ELSE s
RECURSIVE TrimEnd(_)
TrimEnd(s) ==
    IF s # <<>> /\ s[Len(s)] = " " THEN TrimEnd(SubSeq(s, 1, Len(s) - 1))
    ELSE s
Trim(s) == TrimEnd(TrimStart(s))

\* normalizeQuery(query)
normalizeQuery(query) ==
    Trim(ToLowerCase(ReplaceQuoted(ReplaceQuoted(ReplaceNumbers(query), "'"),
                                   "\"")))

\* this.queryPatterns.get(pattern) || 0
PatternCount(patterns, pattern) ==
    IF pattern \in DOMAIN patterns THEN patterns[pattern] ELSE 0

\* new Map()
EmptyMap == [p \in {} |-> 0]

MonitorInit ==
    /\ queryLogs = <<>>
    /\ logged = 0
    /\ clearedAt = 0
    /\ queries = <<>>
    /\ queryPatterns = EmptyMap
    /\ tracked = <<>>
    /\ windows = <<>>

\* trackQuery(query): the counter of the normalized pattern goes up by one
TrackQuery(sig) ==
    /\ Len(tracked) < MaxTracked
    /\ LET pattern == normalizeQuery(Render(sig))
           count == PatternCount(queryPatterns, pattern) + 1
       IN  queryPatterns' = [p \in DOMAIN queryPatterns \cup {pattern} |->
                               IF p = pattern THEN count
                               ELSE queryPatterns[p]]
    /\ tracked' = Append(tracked, sig)
    /\ UNCHANGED <<queryLogs, logged, clearedAt, queries, windows>>
    /\ UNCHANGED <<poolVars, cacheVars, loaderVars, swrVars, ttlVars, mwVars>>

\* getPatterns(): the entries whose count is over the threshold (the order
\* of the list, by falling count, is left out)
getPatterns ==
    {[pattern |-> p, count |-> queryPatterns[p]] :
        p \in {q \in DOMAIN queryPatterns : queryPatterns[q] > threshold}}

\* a reset that halves every counter, as a sliding average would
PatternsDecayed(patterns) ==
    [p \in DOMAIN patterns |-> patterns[p] \div 2]

\* this.queryPatterns.clear()
PatternsCleared(patterns) == EmptyMap

\* the setInterval callback of the constructor, run every resetInterval
ResetPatterns ==
    /\ Len(windows) < MaxWindows
    /\ queryPatterns' = PatternsCleared(queryPatterns)
    /\ tracked' = <<>>
    /\ windows' = Append(windows, getPatterns)
    /\ UNCHANGED <<queryLogs, logged, clearedAt, queries>>
    /\ UNCHANGED <<poolVars, cacheVars, loaderVars, swrVars, ttlVars, mwVars>>

DetectorNext ==
    \/ \E sig \in Signatures : TrackQuery(sig)
    \/ ResetPatterns

\* the queries of one token
ShortSignatures == [1..1 -> Tokens]

\* the detector fed with queries of one token
WindowNext ==
    \/ \E sig \in ShortSignatures : TrackQuery(sig)
    \/ ResetPatterns

(***************************************************************************)
(* Specifications                                                          *)
(***************************************************************************)
Init ==
    /\ PoolInit /\ CacheInit /\ LoaderInit(FALSE) /\ SwrInit /\ TtlInit
    /\ MwInit /\ MonitorInit

\* a loader created with or without the cache option
LoaderSpecInit ==
    /\ PoolInit /\ CacheInit /\ SwrInit /\ TtlInit /\ MwInit
    /\ MonitorInit
    /\ \E c \in BOOLEAN : LoaderInit(c)

LoaderSpec == LoaderSpecInit /\ [][LoaderNext]_vars

\* what the event loop does for the loader without a new call: time passes,
\* a timer that is due runs its callback, a batchFn call returns or throws
LoaderProgress ==
    \/ Tick
    \/ BatchTimerFires
    \/ \E b \in batches : BatchFnResolves(b) \/ BatchFnRejects(b)

\* the loader under the scheduling of the event loop: while a timer runs or
\* a batchFn call is awaited, one of them eventually makes its step
LoaderLiveSpec ==
    LoaderSpecInit /\ [][LoaderNext]_vars /\ WF_vars(LoaderProgress)

PoolSpec == Init /\ [][PoolNext]_vars

\* the pool when every started operation eventually settles and every armed
\* timer that is not cleared eventually fires
PoolLiveSpec ==
    /\ Init
    /\ [][PoolNext]_vars
    /\ \A c \in Calls :
          /\ WF_vars(\E ok \in BOOLEAN : OperationSettles(c, ok))
          /\ WF_vars(TimeoutFires(c))

TagSpec == Init /\ [][TagNext]_vars

TagSeqSpec == Init /\ [][TagSeqNext]_vars

AsideSpec == Init /\ [][AsideNext]_vars

TtlSpec == Init /\ [][TtlNext]_vars

MwSpec == Init /\ [][MwNext]_vars

MonitorSpec == Init /\ [][MonitorNext]_vars

DetectorSpec == Init /\ [][DetectorNext]_vars

WindowSpec == Init /\ [][WindowNext]_vars

\* getWithRevalidate calls; a callback handed to setImmediate is run
SwrSpec ==
    /\ Init
    /\ [][SwrNext]_vars
    /\ \A c \in SwrCalls : WF_vars(BackgroundRuns(c))

(***************************************************************************)
(* Claims about the connection pool (checked under PoolSpec)               *)
(***************************************************************************)
InQueue(c) == \E i \in 1..Len(connectionQueue) : connectionQueue[i] = c

\* C1: in every reachable state of the pool, whatever the interleaving of
\* acquireConnection calls, settlements and timeouts, the active count is
\* at least 0 and at most maxConnections.
C1_ActiveWithinLimit ==
    /\ activeConnections >= 0
    /\ activeConnections <= maxConnections

\* C1 witness: the pool is full with a caller waiting, after an operation
\* has settled and a timeout has fired.
C1_Witness ==
    /\ activeConnections = maxConnections
    /\ Len(connectionQueue) > 0
    /\ \E c \in Calls : callPc[c] = "done"
    /\ \E c \in Calls : timer[c] = "fired"

\* C2: a queued call whose deadline has elapsed (rejected with the pool
\* timeout) is no longer in the wait queue and its operation is never started.
C2_TimedOutNeverServiced ==
    \A c \in Calls :
        timer[c] = "fired" => (~InQueue(c) /\ runs[c] = 0)

\* C10: queued calls are serviced in the order they were enqueued: a call that
\* goes from queued to running is the oldest call still in the queue (calls
\* are numbered in the order they are made, which is the order they enqueue).
C10_OldestQueuedFirst ==
    [][\A c \in Calls :
          (callPc[c] = "queued" /\ callPc'[c] = "running")
              => /\ InQueue(c)
                 /\ \A i \in 1..Len(connectionQueue) : c <= connectionQueue[i]]_vars

\* C10 witness: a call taken from the queue is running while at least two
\* younger calls wait behind it.
C10_Witness ==
    \E c \in Calls :
        /\ callPc[c] = "running"
        /\ timer[c] # "none"
        /\ Len(connectionQueue) >= 2
        /\ \A i \in 1..Len(connectionQueue) : connectionQueue[i] > c

\* C11: with operations that settle and timers that fire, every call placed
\* in the wait queue is eventually serviced (its operation is started) or
\* rejected with the timeout error (no call goes on waiting, unserviced and
\* unrejected, for ever), and a call that is waiting is always still in the
\* queue: none is dropped without one of the two outcomes.
C11_QueuedServicedOrTimedOut ==
    /\ \A c \in Calls :
          []<>(callPc[c] = "queued" => (runs[c] > 0 \/ outcome[c] = "timeout"))
    /\ [](\A c \in Calls : callPc[c] = "queued" => InQueue(c))

\* C11 witness: the queue is empty again after one queued call was serviced
\* before its deadline and another was rejected with the timeout error.
C11_Witness ==
    /\ connectionQueue = <<>>
    /\ \E c \in Calls : timer[c] = "cleared" /\ runs[c] > 0
    /\ \E c \in Calls : outcome[c] = "timeout"

\* C12: every started operation releases its slot exactly once when it
\* settles, resolved or rejected: the active count is the number of calls
\* whose operation is running, and the step that settles a call takes one
\* off the count and hands the slot to the oldest queued call, if any.
C12_ReleasedExactlyOnce ==
    /\ [](activeConnections = Cardinality({c \in Calls : callPc[c] = "running"}))
    /\ [][\A c \in Calls :
            (callPc[c] = "running" /\ callPc'[c] # "running")
                => /\ callPc'[c] = "done"
                   /\ IF connectionQueue = <<>>
                      THEN activeConnections' = activeConnections - 1
                      ELSE /\ activeConnections' = activeConnections
                           /\ callPc'[Head(connectionQueue)] = "running"
                           /\ connectionQueue' = Tail(connectionQueue)]_vars
    /\ [][\A c \in Calls : callPc[c] = "done" => callPc'[c] = "done"]_vars

\* C12 witness: an operation that rejected has released its slot and a call
\* from the queue has been started in it.
C12_Witness ==
    /\ \E c \in Calls : callPc[c] = "done" /\ outcome[c] = "rejected"
    /\ \E c \in Calls : callPc[c] = "running" /\ timer[c] = "cleared"
    /\ activeConnections = maxConnections

(***************************************************************************)
(* Claims about the cache store and its tag index (TagSpec, TagSeqSpec)    *)
(***************************************************************************)
\* C4: once invalidateTags(T) has returned (here: a call that ran with no
\* other call in flight), every key whose live entry was set with a tag of T
\* is a miss on get, whatever sets, deletes, expiries and invalidations were
\* interleaved before it.
C4_InvalidateTagsComplete ==
    \A p \in Procs :
        (proc[p].op = "invalidateTags" /\ proc[p].pc = "idle" /\ proc[p].solo)
            => \A k \in Keys :
                   (Live(k) /\ entryTags[k] \cap Range(proc[p].args) # {})
                       => Get(k) = Null

\* C5: invalidateTags(T) (a call that runs with no other call in flight;
\* under TagSeqSpec every call before it ran alone as well)
\* leaves every live key untouched whose current entry carries no tag of T,
\* also when the key was earlier set with a tag of T.
C5_InvalidateTagsFrame ==
    [][\A p \in Procs :
          (/\ proc[p].op = "invalidateTags"
           /\ proc[p].solo
           /\ proc[p].pc = "inv_exec"
           /\ proc'[p].tagSeq # proc[p].tagSeq)
              => \A k \in Keys :
                     (Live(k) /\ entryTags[k] \cap Range(proc[p].args) = {})
                         => store'[k] = store[k]]_vars

\* C6: whenever no call is in flight (under TagSeqSpec calls never overlap
\* at all), a key is a member of a tag's set if and
\* only if it has a live entry whose most recent set listed that tag.
C6_TagIndexExact ==
    Quiescent =>
        \A k \in Keys, t \in Tags :
            (k \in tagSets[t]) <=> (Live(k) /\ t \in entryTags[k])

\* C7: a set(k, v, tags) that starts after every invalidateTag call has
\* returned is not erased by them: as long as no other call starts and the
\* entry does not expire, get(k) returns v.
C7_LaterSetSurvives ==
    \A p \in Procs :
        (proc[p].op = "set" /\ proc[p].solo)
            => Get(proc[p].key) = proc[p].val

\* C7 witness: a set of a key that a returned invalidation had deleted has
\* itself returned, and get still returns its value.
C7_Witness ==
    \E p \in Procs :
        /\ proc[p].op = "set"
        /\ proc[p].pc = "idle"
        /\ proc[p].solo
        /\ proc[p].afterInv
        /\ Get(proc[p].key) = proc[p].val

\* C9: once a set with tag T and an invalidateTag(T) have both finished, the
\* key is absent or still indexed under T: no live key has lost the
\* membership of a tag its entry carries.  (A set that overlaps no
\* invalidation always leaves its key indexed.)
C9_LiveKeyStaysIndexed ==
    Quiescent =>
        \A k \in Keys, t \in Tags :
            (Live(k) /\ t \in entryTags[k]) => k \in tagSets[t]

(***************************************************************************)
(* Claims about cache-aside beside writers (checked under AsideSpec)       *)
(***************************************************************************)
\* C3: concurrent getOrSet calls on the same key that is absent from the
\* cache coalesce on one fetch: at most one of them has invoked fetchFn.
C3_FetchAtMostOnce ==
    \A k \in Keys :
        Cardinality({p \in Procs : /\ proc[p].op = "getOrSet"
                                   /\ proc[p].key = k
                                   /\ proc[p].pc = "gos_fetching"}) <= 1

\* C8: when a writer updates the backing source and then invalidates the
\* affected tags, no entry carrying one of those tags is stored after the
\* invalidation has returned with data read before the write.
C8_NoStaleRepopulation ==
    [][\A p \in Procs :
          (proc[p].pc = "gos_fetching" /\ proc'[p].pc # "gos_fetching")
              => \A t \in proc[p].tags : proc[p].val >= invalidatedVer[t]]_vars

(***************************************************************************)
(* Claims about the data loader (checked under LoaderSpec)                 *)
(***************************************************************************)
\* C13: within one batch batchFn receives each distinct key at most once:
\* the key list of a dispatched batch holds no key twice.
C13_DistinctKeysPerBatch ==
    \A b \in batches :
        \A i, j \in 1..Len(b) :
            i # j => BatchKeys(b)[i] # BatchKeys(b)[j]

\* C14: the pending batch is dispatched when the queue reaches maxBatchSize
\* or when batchDelay has elapsed since its first item was enqueued, whichever
\* comes first: while items wait, the queue is below the limit and the timer
\* has as many ticks left as remain of the delay since the first enqueue
\* (later enqueues do not restart it), and a batch leaves only full or on
\* the elapsed delay.
C14_DispatchOnSizeOrDelay ==
    /\ [](IF batchQueue = <<>>
          THEN batchTimeout = NoTimer
          ELSE /\ Len(batchQueue) < maxBatchSize
               /\ batchTimeout # NoTimer
               /\ batchTimeout + waited = batchDelay)
    /\ [][\A b \in batches' \ batches :
            /\ batchQueue' = <<>>
            /\ \/ Len(b) = maxBatchSize /\ SubSeq(b, 1, Len(b) - 1) = batchQueue
               \/ b = batchQueue /\ waited = batchDelay]_vars

\* C14 witness: the delay of a batch of two has elapsed while an earlier
\* batch is still with batchFn.
C14_Witness ==
    /\ batches # {}
    /\ Len(batchQueue) = 2
    /\ batchTimeout = 0
    /\ waited = batchDelay

\* C15: when batchFn returns an Error for one key of a batch, only the load
\* calls for that key are rejected, with that Error; every other load call of
\* the batch resolves with the value at its own position in the result list.
\* (A batchFn call that rejects as a whole rejects every item.)
C15_PerKeyError ==
    [][\A b \in batches \ batches' :
          \/ \A i \in 1..Len(b) :
                /\ loads'[b[i]].status = "rejected"
                /\ loads'[b[i]].result = Thrown
          \/ \A i \in 1..Len(b) :
                /\ loads'[b[i]].result = BatchResults(b)[i]
                /\ loads'[b[i]].status =
                       IF IsError(BatchResults(b)[i]) THEN "rejected"
                       ELSE "resolved"]_vars

\* C15 witness: two load calls of one batch have settled, one rejected with
\* the Error of its key and the other resolved with the data of its own key.
C15_Witness ==
    \E l, m \in Loads :
        /\ loads[l].batch # 0
        /\ loads[l].batch = loads[m].batch
        /\ loads[l].status = "rejected"
        /\ loads[l].result = KeyError(loads[l].key)
        /\ loads[m].status = "resolved"
        /\ loads[m].result = Found(loads[m].key, srcVer)

\* C16: with memoization, once load(k) has resolved with a value, every later
\* load(k) returns that value from the cache, enqueues nothing and starts no
\* batch.
C16_MemoizedValueKept ==
    [][(memo /\ nextLoad' = nextLoad + 1)
          => LET k == loads'[nextLoad].key
             IN  ResolvedSoFar(k) # {}
                     => /\ loads'[nextLoad].hit
                        /\ loads'[nextLoad].status = "resolved"
                        /\ batchQueue' = batchQueue
                        /\ batches' = batches
                        /\ \A v \in ResolvedSoFar(k) :
                              loads'[nextLoad].result = v]_vars

(***************************************************************************)
(* Claims about getWithRevalidate (checked under SwrSpec)                  *)
(***************************************************************************)
\* C17: a getWithRevalidate call that finds a cached value returns it without
\* waiting for fetchFn; a background fetchFn then runs on its own (no refresh
\* stays scheduled for ever), and when it succeeds the entry is overwritten
\* with the fresh value, the caller having returned already.
C17_HitReturnsThenRefreshes ==
    /\ [][\A c \in SwrCalls :
            (swrCalls[c].state = "new" /\ swrCalls'[c].state # "new"
                /\ Live(swrCalls'[c].key))
                => /\ swrCalls'[c].state = "returned"
                   /\ swrCalls'[c].ret = Get(swrCalls'[c].key)
                   /\ swrCalls'[c].bg = "scheduled"
                   /\ store' = store]_vars
    /\ \A c \in SwrCalls : []<>(swrCalls[c].bg # "scheduled")
    /\ [][\A c \in SwrCalls :
            (swrCalls[c].bg = "fetching" /\ swrCalls'[c].bg \in {"setting", "done"})
                => /\ store'[swrCalls[c].key] = Serialize(db)
                   /\ swrCalls[c].state = "returned"
                   /\ swrCalls'[c].state = "returned"
                   /\ swrCalls'[c].ret = swrCalls[c].ret]_vars

\* C17 witness: a call returned the cached value, and its background refresh
\* has since replaced the entry with a newer one.
C17_Witness ==
    \E c \in SwrCalls :
        /\ swrCalls[c].found # "miss"
        /\ swrCalls[c].state = "returned"
        /\ swrCalls[c].bg = "done"
        /\ swrCalls[c].fresh # swrCalls[c].ret
        /\ Get(swrCalls[c].key) = swrCalls[c].fresh

\* C18: getWithRevalidate honours staleTime: a call that hits an entry
\* younger than staleTime returns the cached value and causes no invocation
\* of fetchFn; a call that hits an older entry returns the old value (its
\* refresh runs in the background).
C18_StaleTimeHonoured ==
    \A c \in SwrCalls :
        /\ swrCalls[c].found = "fresh"
               => /\ swrCalls[c].state = "returned"
                  /\ swrCalls[c].bg \in {"none", "scheduled"}
        /\ swrCalls[c].found = "stale" => swrCalls[c].state = "returned"

\* C19: a getWithRevalidate call that finds no cached value waits for
\* fetchFn, writes the fetched value to the cache before it returns, and
\* returns that value.
C19_MissFetchesAndStores ==
    /\ [][\A c \in SwrCalls :
            (swrCalls[c].state = "new" /\ swrCalls'[c].state # "new"
                /\ ~Live(swrCalls'[c].key))
                => /\ swrCalls'[c].state = "fetching"
                   /\ swrCalls'[c].bg = "none"]_vars
    /\ [][\A c \in SwrCalls :
            (swrCalls[c].state = "fetching"
                /\ swrCalls'[c].state \in {"setting", "returned"})
                => /\ swrCalls'[c].fresh = db
                   /\ store'[swrCalls[c].key] = Serialize(db)]_vars
    /\ [](\A c \in SwrCalls :
            (swrCalls[c].found = "miss" /\ swrCalls[c].state = "returned")
                => /\ swrCalls[c].fresh # Null
                   /\ swrCalls[c].ret = swrCalls[c].fresh)

\* C19 witness: a call that missed has returned the value it fetched after
\* the data was rewritten, and the cache holds that value.
C19_Witness ==
    \E c \in SwrCalls :
        /\ swrCalls[c].found = "miss"
        /\ swrCalls[c].state = "returned"
        /\ swrCalls[c].ret = MaxVersion
        /\ Get(swrCalls[c].key) = swrCalls[c].ret

\* C20: when the background fetchFn of a hit fails, the caller, who already
\* has the cached value, is not affected, and the cache entry is neither
\* deleted nor modified.
C20_BackgroundFailureContained ==
    [][\A c \in SwrCalls :
          (swrCalls[c].bg = "fetching" /\ swrCalls'[c].bg = "failed")
              => /\ store' = store
                 /\ tagSets' = tagSets
                 /\ swrCalls[c].state = "returned"
                 /\ swrCalls'[c].state = "returned"
                 /\ swrCalls'[c].ret = swrCalls[c].ret]_vars

\* C20 witness: a background refresh has failed, its caller has the cached
\* value and the entry still holds it.
C20_Witness ==
    \E c \in SwrCalls :
        /\ swrCalls[c].bg = "failed"
        /\ swrCalls[c].state = "returned"
        /\ Get(swrCalls[c].key) = swrCalls[c].ret


\* C27: every invalidateTag(t) returns the number of live keys bearing t that
\* it deleted: when the pipeline of an invalidateTag has replied, the count
\* added to the caller's total is the number of keys the pipeline deleted
\* that were live
C27_InvalidateTagCountsLive ==
    [][\A p \in Procs :
         (proc[p].pc = "inv_exec" /\ proc'[p] # proc[p]) =>
            AfterExec(proc[p]).total =
               proc[p].total
                 + Cardinality({k \in proc[p].keysRead : Live(k)})]_vars


\* C25: for every key k and value v, after set(k, v, ttl) with a positive
\* ttl and no later set of k, a get(k) issued before ttl seconds have elapsed
\* returns v unchanged, and a get(k) issued after ttl seconds have elapsed
\* returns a miss
C25_TtlRoundTrip ==
    \A k \in Keys :
       (lastSet[k].called /\ lastSet[k].given /\ lastSet[k].ttl > 0) =>
          /\ lastSet[k].ok
          /\ lastSet[k].age < lastSet[k].ttl => Get(k) = lastSet[k].val
          /\ lastSet[k].age >= lastSet[k].ttl => Get(k) = Null

\* k1 was set with ttl 2 two seconds ago and its entry has expired, while
\* k2, set with ttl 2 one second ago, is still read back
C25_Witness ==
    /\ lastSet["k1"].given /\ lastSet["k1"].ttl = 2 /\ lastSet["k1"].age = 2
    /\ Get("k1") = Null
    /\ lastSet["k2"].given /\ lastSet["k2"].ttl = 2 /\ lastSet["k2"].age = 1
    /\ lastSet["k2"].val = 1 /\ Get("k2") = 1

\* C26: every set whose ttl is zero or negative fails with an invalid-TTL
\* error result and stores nothing
C26_NonPositiveTtlRejected ==
    [][\A k \in Keys :
         (/\ lastSet'[k] # lastSet[k]
          /\ lastSet'[k].age = 0
          /\ lastSet'[k].given
          /\ lastSet'[k].ttl <= 0) =>
            /\ ~lastSet'[k].ok
            /\ store'[k] = store[k]
            /\ expiresIn'[k] = expiresIn[k]]_vars


C22_MissStoresIffShouldCache ==
    \A i \in DOMAIN requests :
       (/\ requests[i].state = "done"
        /\ requests[i].path = "miss"
        /\ ~requests[i].setFailed) =>
          /\ requests[i].stored <=> ShouldCache(requests[i])
          /\ requests[i].xcache = "MISS"

\* C23: every request that is not a GET or for which skipCache holds has the
\* handler invoked once and its promise returned, and no cache command is
\* issued for it
C23_BypassTouchesNoCache ==
    \A i \in DOMAIN requests :
       (requests[i].method # "GET" \/ requests[i].skip) =>
          /\ requests[i].path = "bypass"
          /\ requests[i].handlerRuns = 1
          /\ requests[i].cacheOps = 0
          /\ requests[i].xcache = "none"

\* a GET request for which skipCache held and a POST request have both been
\* answered by the handler
C23_Witness ==
    \E i, j \in DOMAIN requests :
       /\ requests[i].state = "done" /\ requests[i].method = "GET"
       /\ requests[i].skip
       /\ requests[j].state = "done" /\ requests[j].method = "POST"

\* C24: every store failure during get or set is reported to the caller as an
\* error result, that is a result other than the one of a miss (for get) or
\* of a success (for set), and never as an exception; the wrapper still runs
\* the handler and returns its response
C24_StoreFailureReported ==
    \A i \in DOMAIN requests :
       /\ requests[i].getFailed =>
             /\ requests[i].got # Null
             /\ requests[i].handlerRuns >= 1
       /\ requests[i].setFailed =>
             /\ ~requests[i].stored
             /\ requests[i].state = "done"
             /\ requests[i].handlerRuns >= 1


\* C28: in every reachable state the query log holds at most maxLogSize
\* entries, and they are exactly the most recent entries logged since the
\* last clear, in the order in which they were logged
C28_LogKeepsMostRecent ==
    /\ Len(queryLogs) <= maxLogSize
    /\ Len(queryLogs) = IF logged - clearedAt > maxLogSize THEN maxLogSize
                        ELSE logged - clearedAt
    /\ \A i \in 1..Len(queryLogs) :
          queryLogs[i].n = logged - Len(queryLogs) + i

\* more than maxLogSize entries have been logged since the last clear, one
\* of the queries was rejected, and the log has been trimmed
C28_Witness ==
    /\ logged - clearedAt > maxLogSize
    /\ Len(queryLogs) = maxLogSize
    /\ \E c \in DOMAIN queries : queries[c].state = "rejected"

\* C29: every monitoredQuery invocation is recorded both by the monitor and
\* by the N+1 detector: when the promise of queryFn settles, a new last entry
\* is logged and the counter of one pattern of the detector goes up by one
C29_RecordedByMonitorAndDetector ==
    [][\A c \in DOMAIN queries :
         (/\ queries[c].state = "running"
          /\ queries'[c].state \in {"resolved", "rejected"}) =>
            /\ logged' = logged + 1
            /\ queryLogs' # <<>>
            /\ queryLogs'[Len(queryLogs')].n = logged'
            /\ \E p \in DOMAIN queryPatterns' :
                  queryPatterns'[p] = PatternCount(queryPatterns, p) + 1]_vars

\* the shape of a signature: its words in lower case, and one placeholder
\* for every numeric literal, string literal and quoted identifier
Shape(sig) ==
    [i \in 1..Len(sig) |-> IF sig[i].kind = "word"
                           THEN ToLowerCase(sig[i].text) ELSE <<"?">>]

\* C30: every trackQuery(q) increments the counter of exactly the normalized
\* shape of q, and signatures that differ only in the values of their
\* literals and in letter case share one shape: between two resets, the
\* counter of the pattern of every tracked signature is the number of
\* tracked signatures that have its shape
C30_SameShapeSameCounter ==
    \A i \in DOMAIN tracked :
       PatternCount(queryPatterns, normalizeQuery(Render(tracked[i]))) =
          Cardinality({j \in DOMAIN tracked :
                         Shape(tracked[j]) = Shape(tracked[i])})


\* C39: in every reachable state of the pool, also after resetStats was
\* called while operations are running, the snapshot of getStats satisfies
\* activeConnections <= peakConnections <= maxConnections
C39_PeakBoundsActive ==
    /\ GetStats.activeConnections <= GetStats.peakConnections
    /\ GetStats.peakConnections <= maxConnections


\* C34: in every reachable state in which the wait queue of the pool is not
\* empty, the active count equals maxConnections: no slot is idle while a
\* call is waiting, so an arriving call cannot take a slot ahead of the queue
C34_NoIdleSlotWhileQueued ==
    Len(connectionQueue) > 0 => activeConnections = maxConnections

\* a call is waiting after an operation has settled and handed its slot to
\* the call at the head of the queue
C34_Witness ==
    /\ Len(connectionQueue) > 0
    /\ activeConnections = maxConnections
    /\ \E c \in Calls : callPc[c] = "done"
    /\ \E c \in Calls : callPc[c] = "running" /\ timer[c] = "cleared"


\* C33: a queued acquireConnection call is rejected with the pool-timeout
\* error exactly when its timer fires, which happens only while the call is
\* still waiting, unserviced, in the queue; each such rejection adds one to
\* the timeouts counter; a call serviced before its deadline (its timer was
\* cleared) is never rejected with the timeout error
C33_TimeoutExactlyAtDeadline ==
    /\ [](\A c \in Calls : outcome[c] = "timeout" <=> timer[c] = "fired")
    /\ [](\A c \in Calls : timer[c] = "cleared" => outcome[c] # "timeout")
    /\ [][\A c \in Calls :
            (timer[c] # "fired" /\ timer'[c] = "fired") =>
               /\ callPc[c] = "queued"
               /\ InQueue(c)
               /\ runs[c] = 0
               /\ outcome'[c] = "timeout"
               /\ stats'.timeouts = stats.timeouts + 1]_vars

\* one queued call was rejected with the timeout error and counted, another
\* was serviced before its deadline and has resolved
C33_Witness ==
    /\ stats.timeouts >= 1
    /\ \E c \in Calls : outcome[c] = "timeout" /\ timer[c] = "fired"
    /\ \E c \in Calls : timer[c] = "cleared" /\ outcome[c] = "resolved"


\* C32: an error raised by the backing operation reaches the caller of
\* acquireConnection unchanged, on the immediate path and on the queued
\* path: the promise of every call whose operation raised an error is
\* rejected with that error
C32_OperationErrorReachesCaller ==
    \A c \in raised : outcome[c] = "rejected"

\* C35: the handler wrapped by withCache is invoked at most once per
\* request, whichever path the request takes, including a handler that
\* throws
C35_HandlerAtMostOnce ==
    \A i \in DOMAIN requests : requests[i].handlerRuns <= 1

\* C36: with memoization on, a key whose lookup succeeds is passed to
\* batchFn in at most one batch over the lifetime of the loader, also when
\* load(k) is called again while a batch that contains k is in flight
C36_SucceedingKeyFetchedOnce ==
    memo =>
       \A k \in Keys :
          Cardinality({loads[l].batch :
                          l \in {m \in Loads : /\ loads[m].key = k
                                               /\ ~loads[m].hit
                                               /\ loads[m].status = "resolved"}})
             <= 1

\* C38: between calls of the loader the flush timer is pending exactly when
\* the queue is non-empty, and the queue holds fewer than maxBatchSize
\* items; batchFn is never invoked with an empty key list nor with more
\* than maxBatchSize keys
C38_TimerIffQueued ==
    /\ batchTimeout # NoTimer <=> batchQueue # <<>>
    /\ Len(batchQueue) < maxBatchSize
    /\ \A b \in batches : /\ Len(BatchKeys(b)) >= 1
                          /\ Len(BatchKeys(b)) <= maxBatchSize

\* C38 witness: while an earlier batch is with batchFn, the queue is one item
\* short of maxBatchSize and its timer is pending
C38_Witness ==
    /\ batches # {}
    /\ Len(batchQueue) = maxBatchSize - 1
    /\ batchTimeout # NoTimer

\* C37: when every batchFn call eventually returns or throws, the promise
\* of every load call is eventually settled, and settled once: with the
\* value at its position, with the Error batchFn returned for its key, or
\* with the error of a batchFn call that rejected as a whole; a settled
\* promise never changes again
C37_EveryLoadSettledOnce ==
    /\ \A l \in Loads : []<>(loads[l].status # "pending")
    /\ [](\A l \in Loads :
            /\ loads[l].status = "resolved" => ~IsError(loads[l].result)
            /\ loads[l].status = "rejected" =>
                  loads[l].result \in {KeyError(loads[l].key), Thrown})
    /\ [][\A l \in Loads :
            loads[l].status \in {"resolved", "rejected"} =>
               loads'[l] = loads[l]]_vars

\* C37 witness: one load resolved with its value, one rejected with the Error
\* of its key and one rejected with the error of a whole batchFn call
C37_Witness ==
    /\ \E l \in Loads : loads[l].status = "resolved" /\ ~loads[l].hit
    /\ \E l \in Loads : /\ loads[l].status = "rejected"
                        /\ loads[l].result = KeyError(loads[l].key)
    /\ \E l \in Loads : loads[l].status = "rejected" /\ loads[l].result = Thrown

\* C31: at every window boundary all counters of the detector are reset at
\* once: right after a reset the map is empty and getPatterns returns no
\* shapes, and every count is the number of queries of that pattern tracked
\* since the last reset, so counts from before it never contribute
C31_HardReset ==
    /\ [][Len(windows') > Len(windows) =>
             /\ queryPatterns' = EmptyMap
             /\ getPatterns' = {}]_vars
    /\ [](\A p \in DOMAIN queryPatterns \cup
                      {normalizeQuery(Render(tracked[i])) : i \in DOMAIN tracked} :
            PatternCount(queryPatterns, p) =
               Cardinality({i \in DOMAIN tracked :
                               normalizeQuery(Render(tracked[i])) = p}))

\* C31 witness: a reset dropped a pattern that was over the threshold, and a
\* query of that pattern tracked after it is counted from one
C31_Witness ==
    /\ windows # <<>>
    /\ \E w \in windows[Len(windows)] :
          /\ w.count > threshold
          /\ PatternCount(queryPatterns, w.pattern) = 1
    /\ Len(tracked) = 1
    /\ getPatterns = {}

============================================================================
